---- MODULE Spec2Model ----
(***************************************************************************)
(* Model of the sentinel-io node core: the StateManager registry           *)
(* (backend/state_manager.py), the FinOps agents                           *)
(* (backend/agents/implementations.py, backend/agents/base.py) and the     *)
(* worker's telemetry signing (workers/worker.py).                         *)
(*                                                                         *)
(* Numbers that are floats in the source are fixed-point integers here:    *)
(* latency, temperature, clock, fan and load in thousandths, ledger        *)
(* amounts in hundredths of a token.                                       *)
(***************************************************************************)
EXTENDS Integers, Sequences, FiniteSets, TLC

None == "None"

\* ---------------------------------------------------------------- bounds
Nodes == {"w1", "w2", "w3"}
HistoryNodes == {"w1", "w2"}
MaxRegistryIngest == 2
MaxEnforcerRuns == 1
MaxIngest == 62
MaxTx == 22
MaxPenalties == 2
MaxTamper == 2

\* ------------------------------------------------------- program constants
HistoryCap == 60
LedgerCap == 20
AgentLogCap == 100
InitialBalance == 500000

VARIABLES
    workers,         \* StateManager.workers: worker_id -> record
    worker_order,    \* insertion order of the keys of StateManager.workers
    worker_history,  \* StateManager.worker_history: worker_id -> list
    agent_logs,      \* StateManager.agent_logs
    ledger,          \* StateManager.ledger
    now,             \* datetime.now(), a logical clock
    ctx,             \* the AnalysisContext of the current scan
    ingested,        \* history variable: every sample ingested, per node
    posted,          \* history variable: every amount posted to the ledger
    last_op,         \* history variable: the last operation and the state before it
    twin,            \* the worker process: WORKER_ID and its DigitalTwin
    directive,       \* the sabotage/repair directive pending for the worker
    packet,          \* the final_packet the worker signed and sent
    received,        \* the envelope as it arrives at the ingestion boundary
    verdict,         \* the integrity the verifier assigned to it
    tampered,        \* history variable: how often the envelope was altered in flight
    last_run_time,   \* OracleAgent.last_run_time
    analysed         \* history variable: every analysis the OracleAgent made

vars == <<workers, worker_order, worker_history, agent_logs, ledger, now, ctx,
          ingested, posted, last_op, twin, directive, packet, received, verdict,
          tampered, last_run_time, analysed>>

\* the OracleAgent's own state, which nothing but the OracleAgent touches
oraclevars == <<last_run_time, analysed>>

\* the worker and the wire, which no registry operation touches
wirevars == <<twin, directive, packet, received, verdict, tampered, oraclevars>>

\* the registry, which signing and verification do not touch
statevars == <<workers, worker_order, worker_history, agent_logs, ledger, now,
               ctx, ingested, posted, last_op, oraclevars>>

\* ------------------------------------------------------------- helpers
Min(a, b) == IF a < b THEN a ELSE b
Max(a, b) == IF a > b THEN a ELSE b
Abs(a) == IF a < 0 THEN 0 - a ELSE a

\* AppendCapped with pop() in place of pop(0): the newest entry is dropped
AppendCappedPopLast(list, x, cap) ==
    LET l == Append(list, x)
    IN  IF Len(l) > cap THEN SubSeq(l, 1, Len(l) - 1) ELSE l

\* list.append(x) followed by "if len(list) > cap: list.pop(0)"
AppendCapped(list, x, cap) ==
    LET l == Append(list, x)
    IN  IF Len(l) > cap THEN Tail(l) ELSE l

\* the last n elements of a sequence (all of it when it is shorter)
LastN(s, n) == SubSeq(s, Max(1, Len(s) - n + 1), Len(s))

RECURSIVE SumSeq(_)
SumSeq(s) == IF s = <<>> THEN 0 ELSE Head(s) + SumSeq(Tail(s))

RECURSIVE SumNeg(_)
SumNeg(s) ==
    IF s = <<>> THEN 0
    ELSE (IF Head(s) < 0 THEN Abs(Head(s)) ELSE 0) + SumNeg(Tail(s))

RECURSIVE SumPos(_)
SumPos(s) ==
    IF s = <<>> THEN 0
    ELSE (IF Head(s) < 0 THEN 0 ELSE Head(s)) + SumPos(Tail(s))

\* lifecycle_state of every registered node
Lifecycle == [w \in DOMAIN workers |-> workers[w].lifecycle_state]

\* ------------------------------------------------------- StateManager
EmptyLedger == [balance |-> InitialBalance, slashed |-> 0, rewards |-> 0,
                history |-> <<>>]

EmptyCtx == [telemetry_snapshot |-> << >>, anomalies_detected |-> <<>>,
             actions_taken |-> <<>>, agent_logs |-> <<>>]

NoOp == [op |-> "init", node |-> None, pre |-> << >>, standby |-> None,
         action |-> None]

\* OracleAgent.__init__: last_run_time = 0 lies more than a run interval
\* before any time.time(); on the logical clock, which starts at 0, that is
\* one run interval before the start
run_interval == 10

NeverRan == 0 - run_interval

OracleIdle ==
    /\ last_run_time = NeverRan
    /\ analysed = <<>>

\* StateManager.__init__ (and a freshly built OracleAgent)
RegistryInit ==
    /\ OracleIdle
    /\ workers = << >>
    /\ worker_order = <<>>
    /\ worker_history = << >>
    /\ agent_logs = <<>>
    /\ ledger = EmptyLedger
    /\ now = 0
    /\ ingested = [w \in Nodes |-> <<>>]
    /\ posted = <<>>
    /\ last_op = NoOp

\* a fresh registry and no scan under way
StateInit == RegistryInit /\ ctx = EmptyCtx

\* nothing has been sent
NoPacket == [header |-> None]

\* the command poll answers without a "sabotage" key
NoDirective == [component |-> None, health |-> 1000]

\* no worker process has sent anything
WireIdle ==
    /\ twin = None
    /\ directive = NoDirective
    /\ packet = NoPacket
    /\ received = NoPacket
    /\ verdict = None
    /\ tampered = 0

\* the process after start-up: an empty registry, nothing on the wire
Init == StateInit /\ WireIdle

\* self.workers[worker_id] = value: a dict keeps the position of a key it
\* already holds and puts a new key last
DictSet(d, k, v) == [x \in DOMAIN d \cup {k} |-> IF x = k THEN v ELSE d[x]]
OrderSet(o, d, k) == IF k \in DOMAIN d THEN o ELSE Append(o, k)

\* the record update_worker_status stores
TelemetryRecord(data) ==
    [last_seen |-> now, data |-> data, status |-> "Active",
     lifecycle_state |-> "ACTIVE", integrity |-> data.integrity]

\* {"timestamp": now.isoformat(), **data}: a key of data overrides timestamp
HistorySample(data) == data @@ [timestamp |-> now]

\* the registry after update_worker_status(worker_id, data), as a function
\* of the registry before it
RegistryAfter(reg, worker_id, data) ==
    [workers |-> DictSet(reg.workers, worker_id, TelemetryRecord(data)),
     worker_order |-> OrderSet(reg.worker_order, reg.workers, worker_id),
     worker_history |->
         LET h == IF worker_id \in DOMAIN reg.worker_history
                  THEN reg.worker_history[worker_id] ELSE <<>>
         IN  DictSet(reg.worker_history, worker_id,
                     AppendCapped(h, HistorySample(data), HistoryCap))]

\* an update that rebuilds worker_history with the reporting node alone
update_worker_status_SoleHistory(worker_id, data) ==
    /\ workers' = DictSet(workers, worker_id, TelemetryRecord(data))
    /\ worker_order' = OrderSet(worker_order, workers, worker_id)
    /\ worker_history' =
         LET h == IF worker_id \in DOMAIN worker_history
                  THEN worker_history[worker_id] ELSE <<>>
         IN  DictSet(<< >>, worker_id,
                     AppendCapped(h, HistorySample(data), HistoryCap))
    /\ ingested' = [ingested EXCEPT ![worker_id] = Append(@, HistorySample(data))]
    /\ last_op' = NoOp
    /\ UNCHANGED <<agent_logs, ledger, now, ctx, posted, wirevars>>

update_worker_status(worker_id, data) ==
    /\ workers' = DictSet(workers, worker_id, TelemetryRecord(data))
    /\ worker_order' = OrderSet(worker_order, workers, worker_id)
    /\ worker_history' =
         LET h == IF worker_id \in DOMAIN worker_history
                  THEN worker_history[worker_id] ELSE <<>>
         IN  DictSet(worker_history, worker_id,
                     AppendCapped(h, HistorySample(data), HistoryCap))
    /\ ingested' = [ingested EXCEPT ![worker_id] = Append(@, HistorySample(data))]
    /\ last_op' = NoOp
    /\ UNCHANGED <<agent_logs, ledger, now, ctx, posted, wirevars>>

\* a placeholder that starts in service instead of as a standby
SimulatedRecordActive ==
    [last_seen |-> now,
     data |-> [temperature |-> 25000, latency |-> 50, fan_speed |-> 0,
               health |-> [cooling |-> 1000, network |-> 1000]],
     status |-> "Active", lifecycle_state |-> "ACTIVE", integrity |-> "VERIFIED"]

\* the record add_simulated_worker stores
SimulatedRecord ==
    [last_seen |-> now,
     data |-> [temperature |-> 25000, latency |-> 50, fan_speed |-> 0,
               health |-> [cooling |-> 1000, network |-> 1000]],
     status |-> "Active", lifecycle_state |-> "IDLE", integrity |-> "VERIFIED"]

add_simulated_worker(worker_id) ==
    /\ workers' = DictSet(workers, worker_id, SimulatedRecord)
    /\ worker_order' = OrderSet(worker_order, workers, worker_id)
    /\ last_op' = NoOp
    /\ UNCHANGED <<worker_history, agent_logs, ledger, now, ctx, ingested, posted,
                   wirevars>>

\* transition_node: unknown ids are ignored,
\* new_state.upper() is the identity on the upper-case names used here
TransitionNode(ws, worker_id, new_state) ==
    IF worker_id \in DOMAIN ws
    THEN [ws EXCEPT ![worker_id].lifecycle_state = new_state]
    ELSE ws

\* get_idle_node: the first IDLE node in the iteration order of the dict
RECURSIVE FirstIdle(_, _)
FirstIdle(ws, o) ==
    IF o = <<>> THEN None
    ELSE IF ws[Head(o)].lifecycle_state = "IDLE" THEN Head(o)
    ELSE FirstIdle(ws, Tail(o))

\* get_idle_node iterating the dict backwards
get_idle_node_reversed(ws, o) ==
    FirstIdle(ws, [i \in 1..Len(o) |-> o[Len(o) + 1 - i]])

get_idle_node(ws, o) == FirstIdle(ws, o)

\* LedgerAfter without abs(): a penalty lowers the slashed total
LedgerAfterNoAbs(l, amount, reason) ==
    [balance |-> l.balance + amount,
     slashed |-> IF amount < 0 THEN l.slashed + amount ELSE l.slashed,
     rewards |-> IF amount < 0 THEN l.rewards ELSE l.rewards + amount,
     history |-> AppendCapped(l.history,
                              [ts |-> now, amount |-> amount, reason |-> reason],
                              LedgerCap)]

\* the ledger after update_ledger(amount, reason)
LedgerAfter(l, amount, reason) ==
    [balance |-> l.balance + amount,
     slashed |-> IF amount < 0 THEN l.slashed + Abs(amount) ELSE l.slashed,
     rewards |-> IF amount < 0 THEN l.rewards ELSE l.rewards + amount,
     history |-> AppendCapped(l.history,
                              [ts |-> now, amount |-> amount, reason |-> reason],
                              LedgerCap)]

update_ledger(amount, reason) ==
    /\ ledger' = LedgerAfter(ledger, amount, reason)
    /\ posted' = Append(posted, [ts |-> now, amount |-> amount, reason |-> reason])
    /\ last_op' = NoOp
    /\ UNCHANGED <<workers, worker_order, worker_history, agent_logs, now, ctx,
                   ingested, wirevars>>

\* add_agent_log: append, keep the last 100
add_agent_log(logs, log_entry) == AppendCapped(logs, log_entry, AgentLogCap)


\* ------------------------------------------------------------ BaseAgent
\* BaseAgent.execute after a _process that returned (data, message): the
\* response goes to the context's log and to the global agent log
LogResponse(c, agent_id, message) ==
    [c EXCEPT !.agent_logs = Append(@, [agent_id |-> agent_id, message |-> message])]

GlobalLog(agent_id, message) ==
    add_agent_log(agent_logs, [agent |-> agent_id, message |-> message,
                               timestamp |-> now])

\* an except branch that hands back a context without the anomalies
\* _process appended before it raised
LogFailureDroppingAnomalies(c, agent_id, message) ==
    [c EXCEPT !.agent_logs = Append(@, [agent_id |-> agent_id, message |-> message]),
              !.anomalies_detected = <<>>]

\* BaseAgent.execute after a _process that raised: one error response goes
\* to the context's log, nothing to the global agent log
LogFailure(c, agent_id, message) ==
    [c EXCEPT !.agent_logs = Append(@, [agent_id |-> agent_id, message |-> message])]

\* --------------------------------------------------------- EnforcerAgent
\* what the reasoning collaborator can answer to the Enforcer: an error
\* string or text that is not JSON (json.loads raises), or a decision
\* object; node_id = None stands for a decision without that key
EnforcerActions == {"FAILOVER", "RESTART", "REPAIR", "IGNORE"}

EnforcerResponses ==
    {[kind |-> "error", action |-> None, node_id |-> None]}
    \cup [kind : {"json"}, action : EnforcerActions, node_id : Nodes \cup {None}]

\* the registry after the FAILOVER branch: cordon the target, then promote
\* the node get_idle_node() returns, if any
FailoverCordoned(target_node) == TransitionNode(workers, target_node, "CORDONED")

\* the replacement looked up before the target is cordoned
FailoverStandbyBeforeCordon(target_node) == get_idle_node(workers, worker_order)

FailoverStandby(target_node) ==
    get_idle_node(FailoverCordoned(target_node), worker_order)

\* FailoverWorkers without step 1: the standby is promoted, the target is
\* not cordoned
FailoverWorkersNoCordon(target_node) ==
    LET standby == get_idle_node(workers, worker_order)
    IN  IF standby # None
        THEN TransitionNode(workers, standby, "ACTIVE")
        ELSE workers

FailoverWorkers(target_node) ==
    LET cordoned == FailoverCordoned(target_node)
        standby  == FailoverStandby(target_node)
    IN  IF standby # None
        THEN TransitionNode(cordoned, standby, "ACTIVE")
        ELSE cordoned

FailoverLog(target_node) ==
    LET standby == FailoverStandby(target_node)
    IN  IF standby # None
        THEN [event |-> "PREEMPTIVE FAILOVER", target_node |-> target_node,
              standby |-> standby]
        ELSE [event |-> "FAILOVER BLOCKED", target_node |-> target_node,
              standby |-> None]

\* EnforcerAgent._process wrapped in BaseAgent.execute, run on context c.
\* http_ok: whether the POST to /chaos/repair succeeds (it raises otherwise)
EnforcerExecute(c, response, http_ok) ==
    LET target_node ==
            IF response.node_id # None THEN response.node_id
            ELSE c.anomalies_detected[1].node_id
        panic == \/ response.kind = "error"
                 \/ response.action \in {"REPAIR", "RESTART"} /\ ~http_ok
        exec_log ==
            IF c.anomalies_detected = <<>>
            THEN [event |-> "System Healthy", target_node |-> None, standby |-> None]
            ELSE IF panic
            THEN [event |-> "SRE Manager Panic", target_node |-> None, standby |-> None]
            ELSE IF response.action = "FAILOVER"
            THEN FailoverLog(target_node)
            ELSE [event |-> "DECISION", target_node |-> target_node,
                  standby |-> None]
        acted == c.anomalies_detected # <<>> /\ ~panic
        failover == acted /\ response.action = "FAILOVER"
    IN  /\ workers' = IF failover THEN FailoverWorkers(target_node) ELSE workers
        /\ ctx' = LogResponse(
                    IF acted
                    THEN [c EXCEPT !.actions_taken = Append(@, exec_log)]
                    ELSE c,
                    "enforcer", exec_log)
        /\ agent_logs' = GlobalLog("Enforcer", exec_log)
        /\ last_op' = [op |-> "enforcer",
                       node |-> IF acted THEN target_node ELSE None,
                       pre |-> Lifecycle,
                       standby |-> IF failover THEN FailoverStandby(target_node)
                                   ELSE None,
                       action |-> IF acted THEN response.action ELSE None]
        /\ UNCHANGED <<worker_order, worker_history, ledger, now, ingested, posted,
                     wirevars>>

\* ------------------------------------------- specification: the registry
\* telemetry the ingestion boundary hands to update_worker_status
RegistryTelemetry(w) ==
    [worker_id : {w}, latency : {100}, temperature : {45000},
     gpu_util : {50000}, fan_speed : {0}, clock_speed : {100000},
     integrity : {"VERIFIED"}]

\* the context a scan hands to the Enforcer
Anomaly(w) == [node_id |-> w, reason |-> "Efficiency dropped", severity |-> "CRITICAL"]
ScanCtx(anoms) == [EmptyCtx EXCEPT !.anomalies_detected = anoms]
ScanAnomalies == {<<>>, <<Anomaly("w1")>>}

TotalIngested == SumSeq([i \in 1..Len(worker_order) |->
                            IF worker_order[i] \in DOMAIN worker_history
                            THEN Len(worker_history[worker_order[i]]) ELSE 0])

Ingest == \E w \in Nodes : \E data \in RegistryTelemetry(w) :
            /\ TotalIngested < MaxRegistryIngest
            /\ update_worker_status(w, data)

Provision == \E w \in Nodes : add_simulated_worker(w)

Enforce == \E anoms \in ScanAnomalies, r \in EnforcerResponses, ok \in BOOLEAN :
            /\ Len(agent_logs) < MaxEnforcerRuns
            /\ EnforcerExecute(ScanCtx(anoms), r, ok)

Next == Ingest \/ Provision \/ Enforce

Spec == Init /\ [][Next]_vars


\* ------------------------------- specification: one node's history buffer
\* the n-th sample a worker sends carries n in gpu_util, so that every
\* stored sample is distinguishable from every other
HistoryTelemetry(w) ==
    [worker_id |-> w, latency |-> 100, temperature |-> 45000,
     gpu_util |-> Len(ingested[w]) + 1, fan_speed |-> 0, clock_speed |-> 100000,
     integrity |-> "VERIFIED"]

TotalSent == SumSeq([i \in 1..Len(worker_order) |-> Len(ingested[worker_order[i]])])

HistoryIngest == \E w \in HistoryNodes :
                    /\ TotalSent < MaxIngest
                    /\ update_worker_status(w, HistoryTelemetry(w))

HistoryProvision == \E w \in HistoryNodes : add_simulated_worker(w)

HistoryNext == HistoryIngest \/ HistoryProvision

SpecHistory == Init /\ [][HistoryNext]_vars

\* ------------------------------------------- specification: the ledger
\* amounts in hundredths: the uptime reward of a scan, and two penalties
RewardInputs == {<<1, "Uptime Rewards">>}
PenaltyInputs == {<<-1000, "w1 OVERHEAT (-10 $IO)">>,
                  <<-499, "w1 LATENCY > 0.5s (-5 $IO)">>}

PenaltiesPosted == Cardinality({i \in 1..Len(posted) : posted[i].amount < 0})

PostReward == \E in \in RewardInputs :
                /\ Len(posted) < MaxTx
                /\ update_ledger(in[1], in[2])

PostPenalty == \E in \in PenaltyInputs :
                /\ Len(posted) < MaxTx
                /\ PenaltiesPosted < MaxPenalties
                /\ update_ledger(in[1], in[2])

LedgerNext == PostReward \/ PostPenalty

SpecLedger == Init /\ [][LedgerNext]_vars


\* ------------------------------------------------- worker: signing
\* str() of a Python float, for a value given in thousandths: the shortest
\* decimal that reads back as the value, with at least one fractional digit
FracStr(f) ==
    IF f % 100 = 0 THEN ToString(f \div 100)
    ELSE IF f % 10 = 0 THEN ToString(f \div 100) \o ToString((f \div 10) % 10)
    ELSE ToString(f \div 100) \o ToString((f \div 10) % 10) \o ToString(f % 10)

FloatStr(m) == ToString(m \div 1000) \o "." \o FracStr(m % 1000)

\* canonical_string without the temperature
canonical_string_NoTemp(worker_id, timestamp, current_latency, temp) ==
    worker_id \o ":" \o ToString(timestamp) \o ":" \o FloatStr(current_latency)

\* f"{WORKER_ID}:{timestamp}:{current_latency}:{twin.temp}"
canonical_string(worker_id, timestamp, current_latency, temp) ==
    worker_id \o ":" \o ToString(timestamp) \o ":" \o FloatStr(current_latency)
        \o ":" \o FloatStr(temp)

\* SECRET_KEY without the key suffix of a spoofing worker
SECRET_KEY_NoSuffix(worker_id, is_spoofing) == "simulated_sk_" \o worker_id

\* f"simulated_sk_{WORKER_ID}{key_suffix}"
SECRET_KEY(worker_id, is_spoofing) ==
    "simulated_sk_" \o worker_id \o (IF is_spoofing THEN "_FAKE" ELSE "")

\* hmac.new(key, msg, sha256).hexdigest(), taken to be collision free: two
\* digests are equal exactly when key and message are
hmac_sha256(key, msg) == <<"hmac-sha256", key, msg>>

\* body_payload and final_packet of work_loop, sent at time timestamp
final_packet(t, timestamp) ==
    [header |-> [worker_id |-> t.WORKER_ID,
                 timestamp |-> timestamp,
                 signature |->
                    hmac_sha256(SECRET_KEY(t.WORKER_ID, t.is_spoofing),
                                canonical_string(t.WORKER_ID, timestamp,
                                                 t.latency, t.temp))],
     body |-> [worker_id |-> t.WORKER_ID,
               latency |-> t.latency,
               temperature |-> t.temp,
               gpu_util |-> t.load,
               fan_speed |-> t.fan_rpm,
               clock_speed |-> t.clock_speed]]

\* ----------------------------------------- ingestion boundary: verifier
\* The verifier of section 4.2: it recomputes the HMAC with the secret
\* derived for the worker the header names, over the canonical string of
\* the received fields, formatted as the producer formats them.
VerifierCanonical(env) ==
    env.header.worker_id \o ":" \o ToString(env.header.timestamp) \o ":"
        \o FloatStr(env.body.latency) \o ":" \o FloatStr(env.body.temperature)

VerifierSecret(worker_id) == "simulated_sk_" \o worker_id

Verify(env) ==
    IF hmac_sha256(VerifierSecret(env.header.worker_id), VerifierCanonical(env))
         = env.header.signature
    THEN "VERIFIED" ELSE "SPOOFED"

\* -------------------------------------------- specification: signing
SignWorkers == {"w1", "w1_FAKE", "w2"}
SignTimes == {1700000000, 1700000001}
SignLatencies == {100, 1255}
SignTemps == {45000, 96500}
SignLoads == {20000, 80000}
SignFans == {0, 100000}
SignClocks == {100000, 90000}

SignTwins ==
    [WORKER_ID : SignWorkers, is_spoofing : BOOLEAN, latency : SignLatencies,
     temp : SignTemps, load : SignLoads, fan_rpm : {0}, clock_speed : {100000}]

\* the fields of an envelope something on the path can change, and the
\* values it can put there
TamperFields == {"worker_id", "timestamp", "latency", "temperature",
                 "gpu_util", "fan_speed", "clock_speed"}

TamperValues(field) ==
    CASE field = "worker_id" -> SignWorkers
      [] field = "timestamp" -> SignTimes
      [] field = "latency" -> SignLatencies
      [] field = "temperature" -> SignTemps
      [] field = "gpu_util" -> SignLoads
      [] field = "fan_speed" -> SignFans
      [] field = "clock_speed" -> SignClocks

\* the envelope with one field replaced; the worker id is replaced in the
\* header and in the body alike
Altered(env, field, v) ==
    CASE field = "worker_id" ->
            [env EXCEPT !.header.worker_id = v, !.body.worker_id = v]
      [] field = "timestamp" -> [env EXCEPT !.header.timestamp = v]
      [] OTHER -> [env EXCEPT !.body[field] = v]

SignInit ==
    /\ StateInit
    /\ twin \in SignTwins
    /\ directive = NoDirective
    /\ packet = NoPacket
    /\ received = NoPacket
    /\ verdict = None
    /\ tampered = 0

\* work_loop, step 3: sign the telemetry and post it
SendTelemetry ==
    /\ packet = NoPacket
    /\ \E timestamp \in SignTimes :
          /\ packet' = final_packet(twin, timestamp)
          /\ received' = final_packet(twin, timestamp)
    /\ UNCHANGED <<twin, directive, verdict, tampered, statevars>>

\* the envelope is altered between the worker and the ingestion boundary
Tamper ==
    /\ received # NoPacket
    /\ verdict = None
    /\ tampered < MaxTamper
    /\ \E field \in TamperFields : \E v \in TamperValues(field) :
          received' = Altered(received, field, v)
    /\ tampered' = tampered + 1
    /\ UNCHANGED <<twin, directive, packet, verdict, statevars>>

\* the ingestion boundary classifies the envelope it received
VerifyEnvelope ==
    /\ received # NoPacket
    /\ verdict = None
    /\ verdict' = Verify(received)
    /\ UNCHANGED <<twin, directive, packet, received, tampered, statevars>>

SignNext == SendTelemetry \/ Tamper \/ VerifyEnvelope

SpecSign == SignInit /\ [][SignNext]_vars

\* --------------------------------------------------------- WatchdogAgent
\* round(x, ndigits) for x in thousandths: x in units of `unit` thousandths,
\* ties to the even neighbour
RoundHalfEven(x, unit) ==
    LET q == x \div unit
        r == x % unit
    IN  IF 2 * r < unit THEN q
        ELSE IF 2 * r > unit THEN q + 1
        ELSE IF q % 2 = 0 THEN q ELSE q + 1

\* one entry of worker_list: lat in thousandths (round(., 3)), temp, fan,
\* clock and load in tenths (round(., 1))
WorkerEntry(data) ==
    [id |-> data.worker_id,
     lat |-> RoundHalfEven(data.latency, 1),
     temp |-> RoundHalfEven(data.temperature, 100),
     fan |-> RoundHalfEven(data.fan_speed, 100),
     clock |-> RoundHalfEven(data.clock_speed, 100),
     load |-> RoundHalfEven(data.gpu_util, 100),
     integrity |-> data.integrity]

\* efficiency_index of an entry, in hundredths:
\* round(clock_score * 0.4 + temp_score * 0.3 + latency_score * 0.3, 2)
\* with the three scores in thousandths
efficiency_index(w) ==
    LET temp_score == Max(0, 1000 - w.temp)
        clock_score == w.clock
        latency_score == Max(0, 1000 - w.lat)
    IN  RoundHalfEven(4 * clock_score + 3 * temp_score + 3 * latency_score, 100)

worker_list(c) ==
    [i \in 1..Len(c.telemetry_snapshot) |-> WorkerEntry(c.telemetry_snapshot[i])]

\* spoofed_nodes cut after the first spoofed node
spoofed_nodes_first(c) ==
    LET all == SelectSeq(worker_list(c), LAMBDA w : w.integrity = "SPOOFED")
    IN  IF all = <<>> THEN <<>> ELSE <<Head(all)>>

spoofed_nodes(c) == SelectSeq(worker_list(c), LAMBDA w : w.integrity = "SPOOFED")

SpoofAnomaly(w) ==
    [node_id |-> w.id,
     reason |-> "CRITICAL: Signature Spoofing Detected (PoC Violation)"]

\* "Add raw score context": an anomaly the collaborator reported gets the
\* efficiency of the node it names, when that node is in worker_list
WithEfficiency(a, wl) ==
    IF \E i \in 1..Len(wl) : wl[i].id = a.node_id
    THEN LET i == CHOOSE j \in 1..Len(wl) :
                    /\ wl[j].id = a.node_id
                    /\ \A k \in 1..(j - 1) : wl[k].id # a.node_id
         IN  a @@ [efficiency |-> efficiency_index(wl[i])]
    ELSE a

\* WatchdogAgent._process wrapped in BaseAgent.execute, run on context c.
\* response is the collaborator's answer: kind "error" (a text that starts
\* with "AI Error" or "Error"), "malformed" (not JSON) or "json" with the
\* list of anomalies it reports
WatchdogResult(c, response) ==
    LET wl == worker_list(c)
        spoofed == spoofed_nodes(c)
    IN  IF spoofed # <<>>
        THEN [anomalies |-> [i \in 1..Len(spoofed) |-> SpoofAnomaly(spoofed[i])],
              assigned |-> TRUE, asked |-> FALSE, message |-> "SECURITY BREACH"]
        ELSE IF wl = <<>>
        THEN [anomalies |-> <<>>, assigned |-> FALSE, asked |-> FALSE,
              message |-> "No workers to analyze."]
        ELSE IF response.kind = "error"
        THEN [anomalies |-> <<>>, assigned |-> FALSE, asked |-> TRUE,
              message |-> "Result: System Healthy (AI Unreachable)"]
        ELSE IF response.kind = "malformed"
        THEN [anomalies |-> <<>>, assigned |-> FALSE, asked |-> TRUE,
              message |-> "Result: System Healthy (AI Response Malformed)"]
        ELSE [anomalies |-> [i \in 1..Len(response.anomalies) |->
                                WithEfficiency(response.anomalies[i], wl)],
              assigned |-> TRUE, asked |-> TRUE,
              message |-> IF response.anomalies # <<>>
                          THEN "Watchdog AI flagged anomalies."
                          ELSE "AI analysis indicates healthy cluster."]

WatchdogExecute(c, response) ==
    LET res == WatchdogResult(c, response)
    IN  /\ ctx' = LogResponse(
                    IF res.assigned
                    THEN [c EXCEPT !.anomalies_detected = res.anomalies]
                    ELSE c,
                    "watchdog", res.message)
        /\ agent_logs' = GlobalLog("Watchdog", res.message)
        /\ last_op' = [NoOp EXCEPT !.op = "watchdog",
                               !.action = IF res.asked THEN response.kind ELSE None]
        /\ UNCHANGED <<workers, worker_order, worker_history, ledger, now,
                       ingested, posted, wirevars>>

\* ---------------------------------------- specification: one Detector run
DetectorNodes == <<"w1", "w2">>
DetectorTemps == {45000, 97240}
DetectorClocks == {100000, 40000, 10000}
DetectorLatencies == {100, 550, 750, 900}

TelemetryData(w) ==
    [worker_id : {w}, latency : DetectorLatencies, temperature : DetectorTemps,
     gpu_util : {50000}, fan_speed : {0}, clock_speed : DetectorClocks,
     integrity : {"VERIFIED", "SPOOFED"}]

\* snapshots of the first n nodes, in the order of the dict
RECURSIVE Snapshots(_)
Snapshots(n) ==
    IF n = 0 THEN {<<>>}
    ELSE {Append(s, t) : s \in Snapshots(n - 1), t \in TelemetryData(DetectorNodes[n])}

\* the anomaly lists the collaborator can report for the first n nodes
ReportedAnomaly(w, severity) ==
    [node_id |-> w, reason |-> "Efficiency dropped", severity |-> severity]

RECURSIVE Reports(_)
Reports(n) ==
    IF n = 0 THEN {<<>>}
    ELSE Reports(n - 1) \cup
         {Append(s, ReportedAnomaly(DetectorNodes[n], sev)) :
            s \in Reports(n - 1), sev \in {"MEDIUM", "CRITICAL"}}

WatchdogResponses ==
    {[kind |-> "error", anomalies |-> <<>>],
     [kind |-> "malformed", anomalies |-> <<>>]}
    \cup [kind : {"json"}, anomalies : Reports(Len(DetectorNodes))]

DetectorInit ==
    /\ RegistryInit
    /\ WireIdle
    /\ \E n \in 0..Len(DetectorNodes) : \E snap \in Snapshots(n) :
          ctx = [EmptyCtx EXCEPT !.telemetry_snapshot = snap]

Detect == \E r \in WatchdogResponses :
            /\ last_op = NoOp
            /\ WatchdogExecute(ctx, r)

DetectorNext == Detect

SpecDetector == DetectorInit /\ [][DetectorNext]_vars


\* ------------------------------------- specification: the Enforcer's choice
\* the severities an anomaly handed to the Enforcer can carry: the Watchdog
\* copies the collaborator's 'MEDIUM'|'CRITICAL', and any other string
ScanSeverities == {"CRITICAL", "MEDIUM", "LOW"}

SevereAnomaly(w, severity) == [Anomaly(w) EXCEPT !.severity = severity]

\* one Enforcer run, on an anomaly of the registered node w1, in a registry
\* built by ingestion and provisioning
Remediate == \E severity \in ScanSeverities, r \in EnforcerResponses,
                ok \in BOOLEAN :
            /\ agent_logs = <<>>
            /\ "w1" \in DOMAIN workers
            /\ EnforcerExecute(ScanCtx(<<SevereAnomaly("w1", severity)>>), r, ok)

RemediatorNext == \/ agent_logs = <<>> /\ Ingest
                  \/ agent_logs = <<>> /\ Provision
                  \/ Remediate

SpecRemediator == Init /\ [][RemediatorNext]_vars


\* ------------------------------------------------------------ DigitalTwin
\* temperatures in thousandths of a degree; clock_speed and fan_rpm in
\* thousandths of a percent; healths, dust_factor and load factors in
\* thousandths; every product is rounded down to a thousandth
throttle_temp == 95000
heat_gen_base == 1500
cooling_power_max == 4000

\* DigitalTwin.__init__
DigitalTwin ==
    [health_cooling |-> 1000, health_network |-> 1000, health_power |-> 1000,
     temp |-> 45000, clock_speed |-> 100000, fan_rpm |-> 0, dust_factor |-> 0,
     is_spoofing |-> FALSE]

\* the loads, in percent, a tick is run with: the ends and the middle of
\* work_loop's random.uniform(20.0, 80.0), and the ends of the scale
TwinLoads == {0, 20, 50, 80, 100}

\* (load_percent / 100.0) ** 1.2 in thousandths, to the nearest thousandth:
\* 0.2 ** 1.2 = 0.14495..., 0.5 ** 1.2 = 0.43527..., 0.8 ** 1.2 = 0.76508...
load_factor(load_percent) ==
    CASE load_percent = 0   -> 0
      [] load_percent = 20  -> 145
      [] load_percent = 50  -> 435
      [] load_percent = 80  -> 765
      [] load_percent = 100 -> 1000

heat_gen(t, load_percent) ==
    LET base  == (load_factor(load_percent) * heat_gen_base) \div 1000
        power == base + ((1000 - t.health_power) * 2000) \div 1000
    IN  (power * (1000 + t.dust_factor)) \div 1000

\* a fan that never spins up
target_fan_stalled(t) == 0

\* the fan curve: ramps up from 50 degrees, 3 percent per degree
target_fan(t) == Min(100000, Max(0, (t.temp - 50000) * 3))

cooling_effective(t) ==
    LET effective_fan_health == (t.health_cooling * (1000 - t.dust_factor)) \div 1000
    IN  (target_fan(t) * effective_fan_health * (cooling_power_max \div 1000))
            \div 100000

\* step 4 without the floor of 10
ThrottleNoFloor(t, temp) ==
    IF temp > throttle_temp
    THEN t.clock_speed - 10000
    ELSE Min(100000, t.clock_speed + 2000)

\* step 4 of update_physics: the clock after a tick that ends at temp
Throttle(t, temp) ==
    IF temp > throttle_temp
    THEN Max(10000, t.clock_speed - 10000)
    ELSE Min(100000, t.clock_speed + 2000)

\* DigitalTwin.update_physics(load_percent)
update_physics(t, load_percent) ==
    LET temp == Max(25000, t.temp + heat_gen(t, load_percent) - cooling_effective(t))
    IN  [t EXCEPT !.fan_rpm = target_fan(t),
                  !.temp = temp,
                  !.clock_speed = Throttle(t, temp)]

\* apply_sabotage with an ALL_RESTORE that leaves is_spoofing as it is
apply_sabotage_KeepSpoof(t, sabotage) ==
    LET component == sabotage.component
        val == sabotage.health
    IN  CASE component = "COOLING" -> [t EXCEPT !.health_cooling = val]
          [] component = "NETWORK" -> [t EXCEPT !.health_network = val]
          [] component = "POWER" -> [t EXCEPT !.health_power = val]
          [] component = "DUST" -> [t EXCEPT !.dust_factor = val]
          [] component = "SIGNATURE_SPOOF" -> [t EXCEPT !.is_spoofing = TRUE]
          [] component = "ALL_RESTORE" ->
                [t EXCEPT !.health_cooling = 1000, !.health_network = 1000,
                          !.health_power = 1000, !.dust_factor = 0]
          [] OTHER -> t

\* work_loop, step 1: the polled directive is applied to the twin;
\* sabotage.get("health", 1.0) is the directive's health
apply_sabotage(t, sabotage) ==
    LET component == sabotage.component
        val == sabotage.health
    IN  CASE component = "COOLING" -> [t EXCEPT !.health_cooling = val]
          [] component = "NETWORK" -> [t EXCEPT !.health_network = val]
          [] component = "POWER" -> [t EXCEPT !.health_power = val]
          [] component = "DUST" -> [t EXCEPT !.dust_factor = val]
          [] component = "SIGNATURE_SPOOF" -> [t EXCEPT !.is_spoofing = TRUE]
          [] component = "ALL_RESTORE" ->
                [t EXCEPT !.health_cooling = 1000, !.health_network = 1000,
                          !.health_power = 1000, !.dust_factor = 0,
                          !.is_spoofing = FALSE]
          [] OTHER -> t

\* a work_loop that applies a directive for a component it does not know
\* to the cooling
PollAndTickUnknownAsCooling(load_percent) ==
    /\ twin' = update_physics(
                  apply_sabotage(twin,
                      IF directive.component = "GPU"
                      THEN [directive EXCEPT !.component = "COOLING"]
                      ELSE directive),
                  load_percent)
    /\ now' = now + 1
    /\ last_op' = [op |-> "work_loop", node |-> None,
                   pre |-> [twin |-> twin, sabotage |-> directive],
                   standby |-> None, action |-> load_percent]
    /\ UNCHANGED <<workers, worker_order, worker_history, agent_logs, ledger,
                   ctx, ingested, posted, directive, packet, received, verdict,
                   tampered, oraclevars>>

\* one iteration of work_loop up to the physics step: poll the pending
\* directive and apply it, then run update_physics with the tick's load;
\* the clock counts the iterations (time.sleep(0.5) ends each)
PollAndTick(load_percent) ==
    /\ twin' = update_physics(apply_sabotage(twin, directive), load_percent)
    /\ now' = now + 1
    /\ last_op' = [op |-> "work_loop", node |-> None,
                   pre |-> [twin |-> twin, sabotage |-> directive],
                   standby |-> None, action |-> load_percent]
    /\ UNCHANGED <<workers, worker_order, worker_history, agent_logs, ledger,
                   ctx, ingested, posted, directive, packet, received, verdict,
                   tampered, oraclevars>>

\* the command channel: a directive stays pending until a new one
\* supersedes it
SetDirective(sabotage) ==
    /\ directive' = sabotage
    /\ UNCHANGED <<twin, packet, received, verdict, tampered, statevars>>

\* ------------------------------ specification: a twin under a held load
MaxTicks == 72

Directive(component, health) == [component |-> component, health |-> health]

SabotageDirectives ==
    {Directive("COOLING", 0), Directive("NETWORK", 500), Directive("POWER", 0),
     Directive("DUST", 1000), Directive("SIGNATURE_SPOOF", 1000),
     Directive("GPU", 0)}

RepairDirective == Directive("ALL_RESTORE", 1000)

ThermalInit ==
    /\ StateInit
    /\ twin = DigitalTwin
    /\ directive = NoDirective
    /\ packet = NoPacket
    /\ received = NoPacket
    /\ verdict = None
    /\ tampered = 0

\* a sabotage is injected before the worker's first iteration
InjectSabotage == \E sabotage \in SabotageDirectives :
            /\ last_op = NoOp
            /\ directive = NoDirective
            /\ SetDirective(sabotage)

\* the repair supersedes the sabotage, at any time
InjectRepair ==
            /\ directive \in SabotageDirectives
            /\ SetDirective(RepairDirective)

\* the load is held: every iteration runs with the load of the first
Tick == \E load_percent \in TwinLoads :
            /\ now < MaxTicks
            /\ IF last_op = NoOp THEN TRUE ELSE last_op.action = load_percent
            /\ PollAndTick(load_percent)

ThermalNext == InjectSabotage \/ InjectRepair \/ Tick

SpecThermal == ThermalInit /\ [][ThermalNext]_vars


\* ------------------- specification: a twin under a sequence of directives
MaxDirectiveTicks == 4

\* any directive supersedes the pending one, at any time
InjectDirective == \E sabotage \in SabotageDirectives \cup {RepairDirective} :
            SetDirective(sabotage)

\* the first iterations of work_loop, under a held load
DirectedTick == \E load_percent \in TwinLoads :
            /\ now < MaxDirectiveTicks
            /\ IF last_op = NoOp THEN TRUE ELSE last_op.action = load_percent
            /\ PollAndTick(load_percent)

DirectiveNext == InjectDirective \/ DirectedTick

SpecDirective == ThermalInit /\ [][DirectiveNext]_vars


\* --------------------------------- specification: the registry over time
OfflineAfter == 30
MaxClock == 62

\* get_all_workers: the registry it returns, after marking stale nodes
get_all_workers(ws) ==
    [w \in DOMAIN ws |->
        IF now - ws[w].last_seen > OfflineAfter
        THEN [ws[w] EXCEPT !.status = "Offline"]
        ELSE ws[w]]

ReadRegistry ==
    /\ workers' = get_all_workers(workers)
    /\ last_op' = [op |-> "get_all_workers", node |-> None, pre |-> Lifecycle,
                   standby |-> None, action |-> None]
    /\ UNCHANGED <<worker_order, worker_history, agent_logs, ledger, now, ctx,
                   ingested, posted, wirevars>>

\* seconds pass between two calls
ClockSteps == {31}

Elapse == \E seconds \in ClockSteps :
            /\ now + seconds <= MaxClock
            /\ now' = now + seconds
            /\ last_op' = NoOp
            /\ UNCHANGED <<workers, worker_order, worker_history, agent_logs,
                           ledger, ctx, ingested, posted, wirevars>>

ClockNext == Ingest \/ Provision \/ Elapse \/ ReadRegistry

SpecClock == Init /\ [][ClockNext]_vars


\* -------------------------------------------------------- AccountantAgent
\* amounts in hundredths of a token, latencies in thousandths of a second
\* the amounts of a list of transactions
Amounts(entries) == [i \in 1..Len(entries) |-> entries[i].amount]

UptimeReward == 1

\* step 1: 0.01 for every registered worker whose status is "Active"
UptimeRewards(ws) ==
    UptimeReward * Cardinality({w \in DOMAIN ws : ws[w].status = "Active"})

\* step 2 for one snapshot entry: the three rules, one after the other
NodePenalties(tdata) ==
    LET wid == tdata.worker_id
    IN  (IF tdata.integrity = "SPOOFED"
         THEN <<[amount |-> -10000, reason |-> wid \o " SPOOF (-100 $IO)"]>>
         ELSE <<>>)
        \o (IF tdata.latency > 500
            THEN <<[amount |-> -500, reason |-> wid \o " LATENCY > 0.5s (-5 $IO)"]>>
            ELSE <<>>)
        \o (IF tdata.temperature > 95000
            THEN <<[amount |-> -1000, reason |-> wid \o " OVERHEAT (-10 $IO)"]>>
            ELSE <<>>)

\* the penalties of a whole snapshot, in the order of the dict
RECURSIVE Penalties(_)
Penalties(snapshot) ==
    IF snapshot = <<>> THEN <<>>
    ELSE NodePenalties(Head(snapshot)) \o Penalties(Tail(snapshot))

\* ", ".join(penalty_reasons)
RECURSIVE JoinReasons(_)
JoinReasons(ps) ==
    IF Len(ps) = 1 THEN ps[1].reason
    ELSE ps[1].reason \o ", " \o JoinReasons(Tail(ps))

\* total_impact counting only the first rule that matches a node
total_impact_FirstRule(ws, snapshot) ==
    UptimeRewards(ws)
    + SumSeq([i \in 1..Len(snapshot) |->
                IF NodePenalties(snapshot[i]) = <<>> THEN 0
                ELSE NodePenalties(snapshot[i])[1].amount])

total_impact(ws, snapshot) ==
    UptimeRewards(ws) + SumSeq(Amounts(Penalties(snapshot)))

\* AccountantAgent._process wrapped in BaseAgent.execute, run on context c
AccountantExecute(c) ==
    LET seen    == get_all_workers(workers)
        impact  == total_impact(seen, c.telemetry_snapshot)
        reasons == Penalties(c.telemetry_snapshot)
        summary == IF reasons # <<>> THEN JoinReasons(reasons) ELSE "Uptime Rewards"
        after   == LedgerAfter(ledger, impact, summary)
        report  == [total_impact |-> impact, period |-> "10s",
                    balance |-> after.balance, slashed |-> after.slashed]
    IN  /\ workers' = seen
        /\ ledger' = after
        /\ posted' = Append(posted, [ts |-> now, amount |-> impact, reason |-> summary])
        /\ ctx' = LogResponse([financial_report |-> report] @@ c, "accountant", report)
        /\ agent_logs' = GlobalLog("Accountant", report)
        /\ last_op' = [op |-> "accountant", node |-> None, pre |-> ledger,
                       standby |-> None, action |-> summary]
        /\ UNCHANGED <<worker_order, worker_history, now, ingested, wirevars>>

\* ------------------------------------ specification: the Accountant's scan
MaxScans == 1

AccountNodes == <<"w1", "w2">>

\* telemetry on both sides of the two thresholds; the second node is either
\* within all three rules or breaks all three
AccountData(w) ==
    {t \in [worker_id : {w}, latency : {500, 501}, temperature : {95000, 95001},
            gpu_util : {50000}, fan_speed : {0}, clock_speed : {100000},
            integrity : {"VERIFIED", "SPOOFED"}] :
        \/ w = AccountNodes[1]
        \/ /\ (t.latency > 500) = (t.temperature > 95000)
           /\ (t.latency > 500) = (t.integrity = "SPOOFED")}

RECURSIVE AccountSnapshots(_)
AccountSnapshots(n) ==
    IF n = 0 THEN {<<>>}
    ELSE {Append(s, t) : s \in AccountSnapshots(n - 1),
                         t \in AccountData(AccountNodes[n])}

Account == \E n \in 0..Len(AccountNodes) : \E snap \in AccountSnapshots(n) :
            /\ Len(posted) < MaxScans
            /\ AccountantExecute([EmptyCtx EXCEPT !.telemetry_snapshot = snap])

\* the registry is built and ages before the scans
AccountNext == \/ posted = <<>> /\ Ingest
               \/ posted = <<>> /\ Elapse
               \/ Account

SpecAccount == Init /\ [][AccountNext]_vars


\* ------------------------------------------------------ DiagnosticianAgent
\* ctx.telemetry_snapshot.get(node_id)
SnapshotHas(c, node_id) ==
    \E i \in 1..Len(c.telemetry_snapshot) : c.telemetry_snapshot[i].worker_id = node_id

\* the loop over ctx.anomalies_detected: one diagnosis for every anomaly
\* whose node is in the snapshot, with the cause the collaborator names
Diagnoses(c, cause) ==
    LET found == SelectSeq(c.anomalies_detected,
                           LAMBDA a : SnapshotHas(c, a.node_id))
    IN  [i \in 1..Len(found) |->
            [node_id |-> found[i].node_id, classification |-> cause]]

\* DiagnosticianAgent._process wrapped in BaseAgent.execute, run on context
\* c. raises_at = k > 0: the k-th pass of the loop raises (a node_id that is
\* not hashable makes telemetry_snapshot.get raise); the exception leaves
\* _process and execute logs the failure
DiagnosticianExecute(c, cause, raises_at) ==
    LET raised == c.anomalies_detected # <<>> /\ raises_at > 0
        diagnoses == Diagnoses(c, cause)
        message ==
            IF c.anomalies_detected = <<>>
            THEN [event |-> "No anomalies to diagnose.", diagnoses |-> <<>>]
            ELSE IF raised
            THEN [event |-> "Agent failed", diagnoses |-> <<>>]
            ELSE [event |-> "Diagnosed", diagnoses |-> diagnoses]
    IN  /\ ctx' = IF raised
                  THEN LogFailure(c, "diagnostician", message)
                  ELSE IF c.anomalies_detected = <<>>
                  THEN LogResponse(c, "diagnostician", message)
                  ELSE LogResponse(
                         [diagnosis |-> IF diagnoses # <<>>
                                        THEN diagnoses[1].classification
                                        ELSE "Unknown"] @@ c,
                         "diagnostician", message)
        /\ agent_logs' = IF raised THEN agent_logs
                         ELSE GlobalLog("Diagnostician", message)
        /\ last_op' = [op |-> "diagnostician", node |-> None, pre |-> << >>,
                       standby |-> None, action |-> raises_at]
        /\ UNCHANGED <<workers, worker_order, worker_history, ledger, now,
                       ingested, posted, wirevars>>

\* ------------------------- specification: the Detector, then the Diagnoser
DiagnosisCauses == {"Fan Motor Failure", "Unknown"}

Diagnose == \E cause \in DiagnosisCauses :
            \E raises_at \in 0..Len(ctx.anomalies_detected) :
            /\ last_op.op = "watchdog"
            /\ DiagnosticianExecute(ctx, cause, raises_at)

DiagnoseNext == Detect \/ Diagnose

SpecDiagnose == DetectorInit /\ [][DiagnoseNext]_vars


\* -------------------------------------------------------------- OracleAgent
\* "if len(history) < 10: continue"
MinHistory == 10

\* "if pred.get('fail_prob', 0) > 70"
FailThreshold == 70

\* history[-15:]
RecentWindow == 15

\* what the collaborator answers for one node: JSON with an integer
\* fail_prob, JSON without fail_prob, JSON whose fail_prob is a string, or
\* text json.loads rejects
OracleResponses ==
    {[kind |-> "json", fail_prob |-> 70], [kind |-> "json", fail_prob |-> 71],
     [kind |-> "no_prob", fail_prob |-> 0], [kind |-> "text_prob", fail_prob |-> 0],
     [kind |-> "malformed", fail_prob |-> 0]}

\* the workers a routine run chooses from
ActiveWorkers(ws) == {w \in DOMAIN ws : ws[w].status = "Active"}

\* target_workers: the anomalies' nodes that are registered, or the one
\* active worker random.choice picked (None when there is none)
OracleTargets(c, ws, pick) ==
    IF c.anomalies_detected # <<>>
    THEN SelectSeq([i \in 1..Len(c.anomalies_detected) |->
                       c.anomalies_detected[i].node_id],
                   LAMBDA wid : wid \in DOMAIN ws)
    ELSE IF pick = None THEN <<>> ELSE <<pick>>

\* state.get_worker_history(wid)
get_worker_history(wid) ==
    IF wid \in DOMAIN worker_history THEN worker_history[wid] ELSE <<>>

EnoughHistory(wid) == Len(get_worker_history(wid)) >= MinHistory

\* the targets the collaborator is asked about
OracleAnalysed(targets) == SelectSeq(targets, EnoughHistory)

\* predictions: one per analysed target whose answer json.loads accepts,
\* with node_id overwritten by the target's id
OraclePredictions(targets, resp) ==
    LET parsed == SelectSeq(OracleAnalysed(targets),
                            LAMBDA wid : resp[wid].kind # "malformed")
    IN  [i \in 1..Len(parsed) |->
            [node_id |-> parsed[i], kind |-> resp[parsed[i]].kind,
             fail_prob |-> resp[parsed[i]].fail_prob,
             evidence |-> Len(LastN(get_worker_history(parsed[i]), RecentWindow))]]

\* the first prediction whose fail_prob cannot be compared with 70
\* (0 when every one can): there "pred.get('fail_prob', 0) > 70" raises
RECURSIVE FirstUncomparable(_, _)
FirstUncomparable(predictions, i) ==
    IF i > Len(predictions) THEN 0
    ELSE IF predictions[i].kind = "text_prob" THEN i
    ELSE FirstUncomparable(predictions, i + 1)

Upgraded(pred) == pred.fail_prob > FailThreshold

\* the anomalies the upgrade loop appends for the predictions it reaches
OracleAnomalies(predictions) ==
    LET k == FirstUncomparable(predictions, 1)
        reached == IF k = 0 THEN predictions ELSE SubSeq(predictions, 1, k - 1)
        high == SelectSeq(reached, Upgraded)
    IN  [i \in 1..Len(high) |->
            [node_id |-> high[i].node_id, reason |-> "ORACLE PREDICTION"]]

\* "not is_emergency and (now - self.last_run_time < self.run_interval)"
RateLimited(c, pick) ==
    c.anomalies_detected = <<>> /\ now - last_run_time < run_interval

\* OracleAgent._process wrapped in BaseAgent.execute, run on context c;
\* pick is what random.choice returns, resp the collaborator's answers
OracleExecute(c, pick, resp) ==
    LET skipped == RateLimited(c, pick)
        ws == get_all_workers(workers)
        targets == OracleTargets(c, ws, pick)
        predictions == OraclePredictions(targets, resp)
        raised == FirstUncomparable(predictions, 1) # 0
        injected ==
            [c EXCEPT !.agent_logs = Append(@, [agent_id |-> "oracle",
                                                 data |-> predictions,
                                                 message |-> "Oracle generated prophecies."]),
                      !.anomalies_detected = @ \o OracleAnomalies(predictions)]
        outcome == IF skipped THEN "skipped"
                   ELSE IF targets = <<>> THEN "no targets"
                   ELSE IF raised THEN "raised"
                   ELSE "complete"
        message == CASE outcome = "skipped" -> "Oracle skipped (Standing by)."
                     [] outcome = "no targets" -> "No active targets for prediction."
                     [] outcome = "raised" -> "Agent failed"
                     [] OTHER -> "Oracle Analysis Complete."
    IN  /\ last_run_time' = IF skipped THEN last_run_time ELSE now
        /\ workers' = IF skipped THEN workers ELSE ws
        /\ ctx' = CASE outcome = "skipped" -> LogResponse(c, "oracle", message)
                    [] outcome = "no targets" -> LogResponse(c, "oracle", message)
                    [] outcome = "raised" -> LogFailure(injected, "oracle", message)
                    [] OTHER -> LogResponse(injected, "oracle", message)
        /\ agent_logs' = IF outcome = "raised" THEN agent_logs
                         ELSE GlobalLog("Oracle", message)
        /\ analysed' =
             IF skipped THEN analysed
             ELSE LET asked == OracleAnalysed(targets)
                  IN  analysed \o [i \in 1..Len(asked) |->
                          [node_id |-> asked[i], at |-> now,
                           emergency |-> c.anomalies_detected # <<>>]]
        /\ last_op' = [op |-> "oracle", node |-> pick, pre |-> c,
                       standby |-> None, action |-> outcome]
        /\ UNCHANGED <<worker_order, worker_history, ledger, now, ingested,
                       posted, twin, directive, packet, received, verdict,
                       tampered>>

\* ---------------------------- specification: scans that run the OracleAgent
MaxOracleClock == 15

OracleNodes == {"w1", "w2"}

\* the sample every node reported so far
OracleSample == [temperature |-> 45000, fan_speed |-> 0, gpu_util |-> 50000,
                 latency |-> 100, integrity |-> "VERIFIED", timestamp |-> 0]

HistoryLens == {MinHistory - 1, MinHistory}

\* both nodes have reported, each MinHistory - 1 or MinHistory times
OracleInit ==
    /\ OracleIdle
    /\ WireIdle
    /\ now = 0
    /\ workers = [w \in OracleNodes |-> TelemetryRecord(OracleSample)]
    /\ worker_order = <<"w1", "w2">>
    /\ \E lens \in [OracleNodes -> HistoryLens] :
          /\ worker_history = [w \in OracleNodes |-> [i \in 1..lens[w] |-> OracleSample]]
          /\ ingested = [w \in Nodes |-> IF w \in OracleNodes
                                          THEN [i \in 1..lens[w] |-> OracleSample]
                                          ELSE <<>>]
    /\ agent_logs = <<>>
    /\ ledger = EmptyLedger
    /\ posted = <<>>
    /\ last_op = NoOp
    /\ ctx = EmptyCtx

\* the contexts a scan hands to the OracleAgent: no anomaly, or those the
\* Watchdog reported
WatchdogAnomaly(w) ==
    [node_id |-> w, reason |-> "Efficiency dropped", severity |-> "CRITICAL"]

OracleContexts ==
    {EmptyCtx} \cup
    {[EmptyCtx EXCEPT !.anomalies_detected = <<WatchdogAnomaly(w)>>] :
       w \in OracleNodes} \cup
    {[EmptyCtx EXCEPT !.anomalies_detected =
          <<WatchdogAnomaly("w1"), WatchdogAnomaly("w2")>>]}

\* the collaborator's answers: at least one of the two is JSON with an
\* integer fail_prob, and the second node's is that or JSON with a string
OracleAnswers ==
    {resp \in [OracleNodes -> OracleResponses] :
        IF resp["w2"].kind = "json" THEN TRUE
        ELSE resp["w2"].kind = "text_prob" /\ resp["w1"].kind = "json"}

OracleScan == \E c \in OracleContexts :
              \E pick \in ActiveWorkers(get_all_workers(workers)) :
              \E resp \in OracleAnswers :
                /\ last_op.op # "oracle"
                /\ OracleExecute(c, pick, resp)

OracleSteps == {5, 10}

OracleElapse == \E seconds \in OracleSteps :
                  /\ now + seconds <= MaxOracleClock
                  /\ now' = now + seconds
                  /\ last_op' = NoOp
                  /\ UNCHANGED <<workers, worker_order, worker_history,
                                 agent_logs, ledger, ctx, ingested, posted,
                                 wirevars>>

OracleNext == OracleScan \/ OracleElapse

SpecOracle == OracleInit /\ [][OracleNext]_vars

\* ================================================================ claims

\* the lifecycle edges section 4.3 of the specification defines
DefinedEdges == {<<"IDLE", "ACTIVE">>, <<"ACTIVE", "CORDONED">>,
                 <<"CORDONED", "IDLE">>}

EdgeAllowed(a, b) == a = b \/ <<a, b>> \in DefinedEdges \/ b = "OFFLINE"

\* C1: every change of a registered node's lifecycle_state, by telemetry
\* ingestion, provisioning, transition_node or failover, follows one of the
\* edges IDLE->ACTIVE, ACTIVE->CORDONED, CORDONED->IDLE or any->OFFLINE.
C1_OnlyDefinedEdges ==
    [][\A w \in DOMAIN workers :
          EdgeAllowed(workers[w].lifecycle_state, workers'[w].lifecycle_state)]_vars

\* the last operation was a FAILOVER the Enforcer executed
FailoverExecuted == last_op.op = "enforcer" /\ last_op.action = "FAILOVER"

IdleBefore == {w \in DOMAIN last_op.pre : last_op.pre[w] = "IDLE"}

LastEvent == agent_logs[Len(agent_logs)].message.event

\* C2: a FAILOVER for a registered ACTIVE node while no node is IDLE leaves
\* every lifecycle_state as it was (the degraded node stays ACTIVE) and
\* records a FAILOVER BLOCKED event.
C2_BlockedFailoverChangesNothing ==
    (/\ FailoverExecuted
     /\ last_op.node \in DOMAIN last_op.pre
     /\ last_op.pre[last_op.node] = "ACTIVE"
     /\ IdleBefore = {})
    => /\ Lifecycle = last_op.pre
       /\ LastEvent = "FAILOVER BLOCKED"
       /\ ctx.actions_taken[Len(ctx.actions_taken)].event = "FAILOVER BLOCKED"

\* a FAILOVER for an ACTIVE node d while some node was IDLE
FailoverWithStandby ==
    /\ FailoverExecuted
    /\ last_op.node \in DOMAIN last_op.pre
    /\ last_op.pre[last_op.node] = "ACTIVE"
    /\ IdleBefore # {}

\* C3: after a FAILOVER for an ACTIVE node d with an IDLE node available, d
\* is CORDONED, the node t that get_idle_node() returned was IDLE and is now
\* ACTIVE, and every other node has the lifecycle_state it had before.
C3_FailoverSwapsExactlyTwo ==
    FailoverWithStandby =>
        LET d == last_op.node
            t == last_op.standby
        IN  /\ DOMAIN Lifecycle = DOMAIN last_op.pre
            /\ t \in IdleBefore
            /\ Lifecycle[d] = "CORDONED"
            /\ Lifecycle[t] = "ACTIVE"
            /\ \A w \in DOMAIN Lifecycle \ {d, t} : Lifecycle[w] = last_op.pre[w]
            /\ LastEvent = "PREEMPTIVE FAILOVER"

\* C3 witness: such a failover happened in a registry of three nodes, so
\* that a node other than d and t exists
C3_Witness == FailoverWithStandby /\ Cardinality(DOMAIN workers) = 3

\* C4: a node's stored history is exactly the last min(n, 60) of the n
\* samples ingested for it, in ingestion order.
C4_HistoryIsLast60 ==
    \A w \in Nodes :
        IF w \in DOMAIN worker_history
        THEN /\ Len(worker_history[w]) = Min(Len(ingested[w]), HistoryCap)
             /\ worker_history[w] = LastN(ingested[w], HistoryCap)
        ELSE ingested[w] = <<>>

\* C4 witness: a node has ingested more than 60 samples, so the oldest
\* have been evicted
C4_Witness == \E w \in DOMAIN worker_history : Len(ingested[w]) > HistoryCap

\* C5: after N update_ledger calls, balance = initial + sum of the amounts,
\* slashed = sum of |negative amounts|, rewards = sum of the non-negative
\* amounts, and the log is the last min(N, 20) transactions in order.
C5_LedgerConservation ==
    /\ ledger.balance = InitialBalance + SumSeq(Amounts(posted))
    /\ ledger.slashed = SumNeg(Amounts(posted))
    /\ ledger.rewards = SumPos(Amounts(posted))
    /\ Len(ledger.history) = Min(Len(posted), LedgerCap)
    /\ ledger.history = LastN(posted, LedgerCap)

\* C5 witness: more than 20 transactions were posted and a penalty is among
\* those the log has dropped
C5_Witness ==
    /\ Len(posted) > LedgerCap
    /\ \E i \in 1..(Len(posted) - LedgerCap) : posted[i].amount < 0


\* the envelope was classified
Classified == verdict # None

\* the fields the canonical string is built from
SignedFields(env) == <<env.header.worker_id, env.header.timestamp,
                       env.body.latency, env.body.temperature>>

ChangedSigned == {i \in 1..4 : SignedFields(received)[i] # SignedFields(packet)[i]}

\* C6: an envelope signed with the worker's own secret and received as sent
\* is VERIFIED; one in which exactly one of worker_id, timestamp, latency
\* and temperature was changed after signing is SPOOFED; one signed with
\* the spoofing worker's other key is SPOOFED.
C6_VerifySignRoundTrip ==
    Classified =>
        /\ (received = packet /\ ~twin.is_spoofing => verdict = "VERIFIED")
        /\ (Cardinality(ChangedSigned) = 1 => verdict = "SPOOFED")
        /\ (received = packet /\ twin.is_spoofing => verdict = "SPOOFED")

\* C6 witness: an honestly signed envelope with one signed field changed in
\* flight was classified SPOOFED
C6_Witness ==
    /\ Classified
    /\ ~twin.is_spoofing
    /\ Cardinality(ChangedSigned) = 1
    /\ verdict = "SPOOFED"

\* C7 as stated: an envelope whose body differs in any field from the body
\* the producer signed is never classified VERIFIED.
C7_AnyBodyMutationInvalidates ==
    (Classified /\ received.body # packet.body) => verdict # "VERIFIED"

\* C7 as amended: an envelope that differs from the signed one in
\* worker_id, timestamp, latency or temperature is never VERIFIED, and an
\* honestly signed envelope that differs at most in gpu_util, fan_speed or
\* clock_speed is VERIFIED.
C7_OnlySignedFieldsProtected ==
    Classified =>
        /\ (ChangedSigned # {} => verdict = "SPOOFED")
        /\ (ChangedSigned = {} /\ ~twin.is_spoofing => verdict = "VERIFIED")

\* C7 witness: an envelope whose gpu_util was changed in flight was
\* classified VERIFIED
C7_Witness ==
    /\ Classified
    /\ received.body.gpu_util # packet.body.gpu_util
    /\ verdict = "VERIFIED"

\* a Detector run has finished
DetectorRan == last_op.op = "watchdog"

SnapshotIndices == 1..Len(ctx.telemetry_snapshot)

\* the severities of the anomalies the run reports for node w
ReportedSeverities(w) ==
    {ctx.anomalies_detected[i].severity :
        i \in {j \in 1..Len(ctx.anomalies_detected) :
                  ctx.anomalies_detected[j].node_id = w}}

\* the classification of section 4.4, for an index in hundredths
ThresholdSeverities(index) ==
    IF index < 40 THEN {"CRITICAL"}
    ELSE IF index < 70 THEN {"MEDIUM"}
    ELSE {}

SnapshotIndex(i) == efficiency_index(WorkerEntry(ctx.telemetry_snapshot[i]))

C9_ThresholdsDecide ==
    DetectorRan =>
        \A i \in SnapshotIndices :
            ctx.telemetry_snapshot[i].integrity # "SPOOFED" =>
                ReportedSeverities(ctx.telemetry_snapshot[i].worker_id)
                    = ThresholdSeverities(SnapshotIndex(i))

\* C10: when the collaborator call fails (error answer or malformed JSON),
\* every node with efficiency_index < 0.7 is still reported with the
\* severity the thresholds give.
C10_ThresholdsSurviveCollaboratorFailure ==
    (DetectorRan /\ last_op.action \in {"error", "malformed"}) =>
        \A i \in SnapshotIndices :
            SnapshotIndex(i) < 70 =>
                ReportedSeverities(ctx.telemetry_snapshot[i].worker_id)
                    = ThresholdSeverities(SnapshotIndex(i))

\* the Enforcer ran on a context that holds an anomaly
EnforcerRanOnAnomaly == last_op.op = "enforcer" /\ ctx.anomalies_detected # <<>>

\* the action the decision matrix of section 4.7 assigns
MatrixAction(severity, idle_available) ==
    IF severity = "CRITICAL" THEN "FAILOVER"
    ELSE IF severity = "MEDIUM" /\ idle_available THEN "FAILOVER"
    ELSE IF severity = "MEDIUM" THEN "RESTART"
    ELSE "REPAIR"

\* C11: the action the Enforcer takes on an anomaly is the decision
\* matrix's: FAILOVER for CRITICAL, FAILOVER for MEDIUM with an IDLE node,
\* RESTART for MEDIUM without one, REPAIR otherwise, whatever the
\* reasoning collaborator answers.
C11_ActionFollowsMatrix ==
    EnforcerRanOnAnomaly =>
        last_op.action = MatrixAction(ctx.anomalies_detected[1].severity,
                                      IdleBefore # {})

\* the worker has run at least one iteration, every one with this load
HeldLoad(load_percent) == last_op.op = "work_loop" /\ last_op.action = load_percent

\* the cooling sabotage was pending from the first iteration on
CoolingFailedFromStart == directive = Directive("COOLING", 0)

\* C12: a twin that starts at temperature 45 and clock_speed 100, has its
\* health_cooling set to 0 and runs 30 update_physics ticks at load 80 has
\* temperature > 95 and clock_speed < 100 after the 30th tick.
C12_ThirtyTicksOverheat ==
    (CoolingFailedFromStart /\ HeldLoad(80) /\ now = 30)
    => (twin.temp > throttle_temp /\ twin.clock_speed < 100000)

\* the worker's last step was an iteration of work_loop
Ticked == last_op.op = "work_loop"

ClockBefore == last_op.pre.twin.clock_speed

\* C13: a tick that ends with temperature > 95 leaves clock_speed strictly
\* lower than it was, unless it was at the floor 10 already; any other tick
\* does not lower it; and clock_speed is always within [10, 100].
C13_ThrottleStep ==
    /\ twin.clock_speed >= 10000 /\ twin.clock_speed <= 100000
    /\ Ticked =>
          IF twin.temp > throttle_temp
          THEN twin.clock_speed < ClockBefore \/ ClockBefore = 10000
          ELSE twin.clock_speed >= ClockBefore

\* C13 witness: the clock had been throttled down to the floor, and the
\* first tick that ends at 95 or below raises it again
C13_Witness ==
    /\ Ticked
    /\ ClockBefore = 10000
    /\ last_op.pre.twin.temp > throttle_temp
    /\ twin.temp <= throttle_temp
    /\ twin.clock_speed > ClockBefore

\* no directive was ever pending: all healths are 1.0 and dust_factor is 0
NeverSabotaged == directive = NoDirective

Restored == Ticked /\ last_op.pre.sabotage = RepairDirective

Healthy(t) ==
    /\ t.health_cooling = 1000
    /\ t.health_network = 1000
    /\ t.health_power = 1000
    /\ t.dust_factor = 0
    /\ t.is_spoofing = FALSE

\* C15: after an ALL_RESTORE directive was applied, whatever the twin's
\* state before, the three healths are 1.0, dust_factor is 0 and
\* is_spoofing is false, and applying the directive again changes nothing.
C15_AllRestoreIdempotent ==
    /\ Restored =>
          /\ Healthy(twin)
          /\ apply_sabotage(twin, RepairDirective) = twin
    /\ apply_sabotage(apply_sabotage(twin, RepairDirective), RepairDirective)
          = apply_sabotage(twin, RepairDirective)

\* C15 witness: the directive was applied to a twin with a failed fan and a
\* dust blanket that was spoofing its signature
C15_Witness ==
    /\ Restored
    /\ last_op.pre.twin.health_cooling = 0
    /\ last_op.pre.twin.dust_factor = 1000
    /\ last_op.pre.twin.is_spoofing

\* the positions, in insertion order, of the registry's IDLE nodes
IdlePositions ==
    {i \in 1..Len(worker_order) :
        workers[worker_order[i]].lifecycle_state = "IDLE"}

\* C16: get_idle_node() returns the IDLE node that was inserted into the
\* registry first, and returns none exactly when no node is IDLE.
C16_FirstIdleInInsertionOrder ==
    LET standby == get_idle_node(workers, worker_order)
    IN  IF IdlePositions = {}
        THEN standby = None
        ELSE /\ standby # None
             /\ standby = worker_order[CHOOSE i \in IdlePositions :
                                          \A j \in IdlePositions : i <= j]

\* C16 witness: the node inserted first is not IDLE, the two inserted after
\* it are, and the second one is returned
C16_Witness ==
    /\ Len(worker_order) = 3
    /\ IdlePositions = {2, 3}
    /\ get_idle_node(workers, worker_order) = worker_order[2]

\* the registry was just read through get_all_workers()
RegistryRead == last_op.op = "get_all_workers"

Stale(w) == now - workers[w].last_seen > OfflineAfter

\* C17: after get_all_workers(), every node whose last_seen is more than 30
\* seconds old has lifecycle_state OFFLINE, whatever state it had before.
C17_StaleNodesGoOffline ==
    RegistryRead =>
        \A w \in DOMAIN workers : Stale(w) => workers[w].lifecycle_state = "OFFLINE"

\* C18: a step that provisions node id w leaves w registered with
\* lifecycle_state IDLE, integrity VERIFIED and cooling and network health
\* 1.0, and get_idle_node() then returns a node: w itself when no other
\* node was IDLE.
C18_ProvisionedIsIdleStandby ==
    [][\A w \in Nodes :
          add_simulated_worker(w) =>
             /\ w \in DOMAIN workers'
             /\ workers'[w].lifecycle_state = "IDLE"
             /\ workers'[w].integrity = "VERIFIED"
             /\ workers'[w].data.health = [cooling |-> 1000, network |-> 1000]
             /\ get_idle_node(workers', worker_order') # None
             /\ IdlePositions = {} => get_idle_node(workers', worker_order') = w]_vars

\* C18 witness: a provisioned node stands behind a node in service and is
\* the one get_idle_node() returns
C18_Witness ==
    \E w \in DOMAIN workers :
        /\ workers[w] = SimulatedRecord
        /\ get_idle_node(workers, worker_order) = w
        /\ Len(worker_order) > 1
        /\ workers[worker_order[1]].lifecycle_state = "ACTIVE"

\* the last operation was a scan of the Accountant (the CostEstimator)
Scanned == last_op.op = "accountant"

\* what section 4.6 charges one snapshot entry
Charge(tdata) ==
    (IF tdata.integrity = "SPOOFED" THEN -10000 ELSE 0)
    + (IF tdata.latency > 500 THEN -500 ELSE 0)
    + (IF tdata.temperature > 95000 THEN -1000 ELSE 0)

\* the penalties levied and the uptime rewards earned in the last scan
ScanPenalties ==
    SumSeq([i \in 1..Len(ctx.telemetry_snapshot) |-> Charge(ctx.telemetry_snapshot[i])])

ScanRewards ==
    UptimeReward * Cardinality({w \in DOMAIN workers : workers[w].status = "Active"})

\* C19: a scan raises the ledger's slashed total by the sum of the penalties
\* it levied and the rewards total by the sum of the uptime rewards it
\* earned, also when it has both.
C19_ScanSplitsRewardsAndPenalties ==
    Scanned =>
        /\ ledger.slashed = last_op.pre.slashed + Abs(ScanPenalties)
        /\ ledger.rewards = last_op.pre.rewards + ScanRewards

\* C20: the scan's total impact is the sum, over the snapshot's nodes, of
\* -100 for SPOOFED integrity, -5 for latency > 0.5 and -10 for temperature
\* > 95, each rule counted on its own, plus the uptime rewards; it is the
\* amount posted to the ledger.
C20_TotalImpactIsSum ==
    Scanned =>
        /\ ctx.financial_report.total_impact = ScanRewards + ScanPenalties
        /\ posted[Len(posted)].amount = ScanRewards + ScanPenalties
        /\ ledger.balance = last_op.pre.balance + ScanRewards + ScanPenalties

\* C20 witness: a scan of two nodes of which the first breaks all three
\* rules and the second none, with a reward earned by one worker while
\* another is Offline
C20_Witness ==
    /\ Scanned
    /\ Len(ctx.telemetry_snapshot) = 2
    /\ Charge(ctx.telemetry_snapshot[1]) = -11500
    /\ Charge(ctx.telemetry_snapshot[2]) = 0
    /\ ScanRewards > 0
    /\ \E w \in DOMAIN workers : workers[w].status = "Offline"

\* the nodes the last scan penalised
Penalised == {ctx.telemetry_snapshot[i].worker_id :
                i \in {j \in 1..Len(ctx.telemetry_snapshot) :
                         Charge(ctx.telemetry_snapshot[j]) < 0}}

\* the nodes section 4.6 rewards: in service, seen recently, not penalised
RewardedNodes ==
    {w \in DOMAIN workers :
        /\ workers[w].lifecycle_state = "ACTIVE"
        /\ workers[w].status = "Active"
        /\ w \notin Penalised}

\* C21: the uptime rewards of a scan are 0.01 for each node that is healthy
\* and ACTIVE; an IDLE, CORDONED or OFFLINE node and a node penalised in
\* the same scan earn nothing.
C21_RewardOnlyHealthyActive ==
    Scanned =>
        ctx.financial_report.total_impact
            = UptimeReward * Cardinality(RewardedNodes) + ScanPenalties

\* the nodes the last Detector run reported
ReportedNodes ==
    {ctx.anomalies_detected[j].node_id : j \in 1..Len(ctx.anomalies_detected)}

\* C22: in a Detector run over a snapshot that holds a SPOOFED node, every
\* non-spoofed node with efficiency_index < 0.7 is reported as an anomaly
\* in the same run.
C22_SpoofShortCircuitsOnlyItself ==
    (/\ DetectorRan
     /\ \E i \in SnapshotIndices : ctx.telemetry_snapshot[i].integrity = "SPOOFED")
    => \A i \in SnapshotIndices :
          (/\ ctx.telemetry_snapshot[i].integrity # "SPOOFED"
           /\ SnapshotIndex(i) < 70)
          => ctx.telemetry_snapshot[i].worker_id \in ReportedNodes

\* C23: when the CostEstimator stage of a scan returns, the Remediator
\* still to run, the ledger is as it was when the scan started, and the
\* report the stage hands on shows the balance and slashed total of then.
C23_LedgerUntouchedDuringScan ==
    Scanned =>
        /\ ledger = last_op.pre
        /\ ctx.financial_report.balance = last_op.pre.balance
        /\ ctx.financial_report.slashed = last_op.pre.slashed

\* the Diagnoser ran and its k-th pass raised
DiagnoserFailedAt(k) == last_op.op = "diagnostician" /\ last_op.action = k /\ k > 0

\* the nodes the Diagnoser's last response holds a diagnosis for
DiagnosedNodes ==
    LET response == ctx.agent_logs[Len(ctx.agent_logs)].message
    IN  {response.diagnoses[i].node_id : i \in 1..Len(response.diagnoses)}

\* C24: when the Diagnoser raises while it processes the k-th anomaly, every
\* other anomalous node of the snapshot is still diagnosed in that stage.
C24_ErrorAbortsOnlyOneNode ==
    \A k \in 1..Len(ctx.anomalies_detected) :
        DiagnoserFailedAt(k) =>
            \A j \in 1..Len(ctx.anomalies_detected) :
                (/\ ctx.anomalies_detected[j].node_id # ctx.anomalies_detected[k].node_id
                 /\ SnapshotHas(ctx, ctx.anomalies_detected[j].node_id))
                => ctx.anomalies_detected[j].node_id \in DiagnosedNodes

\* the OracleAgent ran and ended with the given outcome
OracleRan(outcome) == last_op.op = "oracle" /\ last_op.action = outcome

\* node w was analysed less than one run interval ago
RecentlyAnalysed(w) ==
    \E i \in 1..Len(analysed) :
        analysed[i].node_id = w /\ now - analysed[i].at < run_interval

\* a node other than w was analysed less than one run interval ago
OtherRecentlyAnalysed(w) ==
    \E i \in 1..Len(analysed) :
        analysed[i].node_id # w /\ now - analysed[i].at < run_interval

\* two routine analyses of one node are at least one run interval apart
RoutineAnalysesApart ==
    \A i, j \in 1..Len(analysed) :
        (/\ i < j
         /\ analysed[i].node_id = analysed[j].node_id
         /\ ~analysed[i].emergency
         /\ ~analysed[j].emergency)
        => analysed[j].at - analysed[i].at >= run_interval

\* a routine scan is held back for a node only by that node's own analysis
NotDelayedByOtherNode ==
    OracleRan("skipped") =>
        \A w \in ActiveWorkers(workers) :
            (EnoughHistory(w) /\ OtherRecentlyAnalysed(w)) => RecentlyAnalysed(w)

\* a scan whose context holds an anomaly is never skipped
EmergencyRuns ==
    (last_op.op = "oracle" /\ last_op.pre.anomalies_detected # <<>>)
    => last_op.action # "skipped"

\* C25: routine analyses of one node are at least run_interval apart, a
\* node's routine analysis is not delayed by a run made for another node,
\* and a scan with an anomaly runs the predictor regardless of the interval.
C25_RateLimitIsPerNode ==
    RoutineAnalysesApart /\ NotDelayedByOtherNode /\ EmergencyRuns

\* the OracleAgent ran past its rate limit and found targets
OracleAnalysedTargets == OracleRan("complete") \/ OracleRan("raised")

\* the anomalies the OracleAgent appended in its last run
OracleAdded ==
    SubSeq(ctx.anomalies_detected, Len(last_op.pre.anomalies_detected) + 1,
           Len(ctx.anomalies_detected))

\* the predictions the OracleAgent logged in its last run
OracleLogged == ctx.agent_logs[Len(last_op.pre.agent_logs) + 1].data

\* C26: no anomaly is synthesised for a node with fewer than 10 history
\* samples, and an analysed node gets an anomaly exactly when its estimated
\* failure probability is strictly greater than 70.
C26_AnomalyIffProbAbove70 ==
    OracleAnalysedTargets =>
        /\ \A i \in 1..Len(OracleAdded) :
              Len(get_worker_history(OracleAdded[i].node_id)) >= MinHistory
        /\ \A i \in 1..Len(OracleLogged) :
              OracleLogged[i].kind # "text_prob" =>
                  (OracleLogged[i].fail_prob > FailThreshold
                   <=> \E j \in 1..Len(OracleAdded) :
                          OracleAdded[j].node_id = OracleLogged[i].node_id)

\* the error responses in the context's log
ErrorResponses ==
    {i \in 1..Len(ctx.agent_logs) : ctx.agent_logs[i].message = "Agent failed"}

\* the context as OracleAgent._process left it when the comparison of a
\* logged prediction raised: the prediction log and the anomalies of the
\* predictions before the failing one have been appended
LeftByProcess ==
    [last_op.pre EXCEPT
        !.agent_logs = Append(@, ctx.agent_logs[Len(last_op.pre.agent_logs) + 1]),
        !.anomalies_detected = @ \o OracleAnomalies(OracleLogged)]

\* C29: when _process raises, execute returns the context with exactly one
\* error response appended to its log and with anomalies, diagnosis,
\* financial report and actions as _process left them.
C29_FailureIsLoggedOnce ==
    OracleRan("raised") =>
        /\ Cardinality(ErrorResponses) = 1
        /\ ctx.agent_logs =
              Append(LeftByProcess.agent_logs,
                     [agent_id |-> "oracle", message |-> "Agent failed"])
        /\ ctx.anomalies_detected = LeftByProcess.anomalies_detected
        /\ ctx.actions_taken = LeftByProcess.actions_taken
        /\ ctx.telemetry_snapshot = LeftByProcess.telemetry_snapshot
        /\ DOMAIN ctx = DOMAIN LeftByProcess

\* a run raised after _process had already appended an anomaly
C29_Witness == OracleRan("raised") /\ Len(OracleAdded) > 0

\* the twin fields a directive can set
DirectedFields ==
    {"health_cooling", "health_network", "health_power", "dust_factor",
     "is_spoofing"}

\* the twin fields the component of a directive names
NamedFields(component) ==
    CASE component = "COOLING" -> {"health_cooling"}
      [] component = "NETWORK" -> {"health_network"}
      [] component = "POWER" -> {"health_power"}
      [] component = "DUST" -> {"dust_factor"}
      [] component = "SIGNATURE_SPOOF" -> {"is_spoofing"}
      [] component = "ALL_RESTORE" -> DirectedFields
      [] OTHER -> {}

\* C27: applying a directive changes only the twin fields its component
\* names (ALL_RESTORE names all five), a single-component directive stores
\* its value there, and a directive with any other component changes no
\* twin field.
C27_DirectiveChangesOnlyNamedField ==
    Ticked =>
        LET before == last_op.pre.twin
            sabotage == last_op.pre.sabotage
            named == NamedFields(sabotage.component)
            applied == apply_sabotage(before, sabotage)
        IN  /\ \A f \in DOMAIN before \ named : applied[f] = before[f]
            /\ \A f \in DirectedFields \ named : twin[f] = before[f]
            /\ \A f \in DirectedFields : twin[f] = applied[f]
            /\ \A f \in named \ {"is_spoofing"} :
                  sabotage.component # "ALL_RESTORE" => twin[f] = sabotage.health
            /\ sabotage.component = "SIGNATURE_SPOOF" => twin.is_spoofing
            /\ named = {} => applied = before

\* C27 witness: a directive for a component that is none of the six names
\* was applied to a twin whose fan had been sabotaged
C27_Witness ==
    /\ Ticked
    /\ last_op.pre.sabotage = Directive("GPU", 0)
    /\ last_op.pre.twin.health_cooling = 0

\* the registry's three dicts
Registry == [workers |-> workers, worker_order |-> worker_order,
             worker_history |-> worker_history]

\* an ingestion for w leaves every other node's record and history, the
\* ledger and the agent log as they were
OthersUntouched(w) ==
    /\ DOMAIN workers' = DOMAIN workers \cup {w}
    /\ DOMAIN worker_history' = DOMAIN worker_history \cup {w}
    /\ \A v \in DOMAIN workers \ {w} : workers'[v] = workers[v]
    /\ \A v \in DOMAIN worker_history \ {w} : worker_history'[v] = worker_history[v]
    /\ ledger' = ledger
    /\ agent_logs' = agent_logs

\* the registry after ingesting for w and then for v
BothIngested(w, data, v, other) ==
    RegistryAfter(RegistryAfter(Registry, w, data), v, other)

\* C28 as stated: an ingestion for w changes only w's record and history,
\* and with an ingestion for a different node it yields the same registry
\* in either order.
C28_IngestionsCommute ==
    [][\A w \in Nodes : \A data \in RegistryTelemetry(w) :
          update_worker_status(w, data) =>
             /\ OthersUntouched(w)
             /\ \A v \in Nodes \ {w} : \A other \in RegistryTelemetry(v) :
                   BothIngested(w, data, v, other) = BothIngested(v, other, w, data)]_vars

\* C28 corrected: an ingestion for w changes only w's record and history;
\* with an ingestion for a different node it yields the same records and
\* the same histories in either order, and the same iteration order of the
\* registry when both nodes were registered before.
C28_IngestionsCommuteAsMappings ==
    [][\A w \in Nodes : \A data \in RegistryTelemetry(w) :
          update_worker_status(w, data) =>
             /\ OthersUntouched(w)
             /\ Registry' = RegistryAfter(Registry, w, data)
             /\ \A v \in Nodes \ {w} : \A other \in RegistryTelemetry(v) :
                   LET wv == BothIngested(w, data, v, other)
                       vw == BothIngested(v, other, w, data)
                   IN  /\ wv.workers = vw.workers
                       /\ wv.worker_history = vw.worker_history
                       /\ {w, v} \subseteq DOMAIN workers
                             => wv.worker_order = vw.worker_order]_vars

\* C28 witness: two nodes have reported, the second one after the first
\* was registered, and the first one's record and history are in place
C28_Witness ==
    \E w, v \in DOMAIN worker_history :
        /\ w # v
        /\ worker_order = <<w, v>>
        /\ Len(worker_history[w]) = 1
        /\ Len(worker_history[v]) = 1
        /\ workers[w].lifecycle_state = "ACTIVE"

\* the nodes the last operation brought into service
Promoted ==
    {w \in DOMAIN workers :
        /\ workers[w].lifecycle_state = "ACTIVE"
        /\ IF w \in DOMAIN last_op.pre THEN last_op.pre[w] # "ACTIVE" ELSE TRUE}

\* C30: a FAILOVER never promotes its own target, whatever the target's
\* lifecycle_state was (IDLE included): the node get_idle_node() selected is
\* a different node, it is the only node promoted, and it was IDLE.
C30_FailoverNeverPromotesTarget ==
    FailoverExecuted =>
        /\ last_op.standby # last_op.node
        /\ last_op.node \notin Promoted
        /\ Cardinality(Promoted) <= 1
        /\ IF last_op.standby = None THEN Promoted = {}
           ELSE Promoted = {last_op.standby} /\ last_op.standby \in IdleBefore

\* C30 witness: the target of the FAILOVER was itself the first IDLE node,
\* and another IDLE node was promoted
C30_Witness ==
    /\ FailoverExecuted
    /\ last_op.node \in IdleBefore
    /\ last_op.standby # None
    /\ worker_order[1] = last_op.node

====
